---- MODULE Spec2Model ----
(***************************************************************************)
(* Certificate rotation pass of 19_01_2026_certificate_rotation.py:        *)
(* main() selects the services to rotate, submits one rotate_certificate   *)
(* task per selected service to a ThreadPoolExecutor(MAX_WORKERS), gathers *)
(* the results with as_completed and logs the summary.                     *)
(***************************************************************************)
EXTENDS Integers, Sequences, FiniteSets, TLC

VARIABLES
    services,            \* load_services(): the parsed configuration, a list
    force,               \* args.force
    dry_run,             \* rotator.dry_run (args.dry_run)
    MAX_WORKERS,         \* module configuration, int(os.getenv("MAX_WORKERS", "10"))
    now,                 \* the wall clock, in hours, as last read by days_until_expiry
    phase,               \* position of main()
    loop_i,              \* index of the service the current loop of main() is at
    services_to_rotate,  \* list of (references to) the selected services
    work_queue,          \* the executor's FIFO queue of submitted, not yet started tasks
    future,              \* per service: state of its future / position of its task
    cert_data,           \* per task: what request_new_certificate returned
    reload_ok,           \* per task: what reload_service returned
    result,              \* per task: the dict rotate_certificate returned
    rotation_results,    \* main(): list of collected results
    yielded,             \* the tasks whose futures as_completed has yielded, in order
    issue_posts,         \* per task: number of issuance POSTs sent to the store
    reload_calls,        \* per task: reload mechanisms actually invoked, in order
    summary,             \* the summary report logged by main(), or NoSummary
    cert_reads,          \* per service: calls of get_current_cert_info (main() has none)
    exit_code,           \* exit status of the process, -1 while it runs
    \* the retrying session of _create_session, for one request sent through it
    tr_method,           \* HTTP method of the request
    tr_pc,               \* "idle", "send", "backoff", or how the request ended
    tr_total,            \* Retry.total: retries left
    tr_history,          \* what each attempt so far ended in
    tr_waits,            \* the sleeps made between attempts, in seconds
    \* one evaluation of days_until_expiry and of the test of line 342
    expiry_iso,          \* the expiry value handed to days_until_expiry
    lead_time,           \* the configured ROTATION_BEFORE_DAYS
    days_left,           \* what days_until_expiry returned (0 before the call)
    parse_errors,        \* number of "Failed to parse expiry date" errors logged
    due,                 \* whether the test of line 342 selected the service
    ev_pc,               \* "idle", "start", "days" (days_left is set), "done"
    \* src/16_01_2026_health_checker_simple.py: one call of check_service_health
    hc_pc,               \* "idle", "loop" (at the while test), "failed" (at line 71), "returned"
    hc_attempts,         \* the local variable attempts
    hc_calls,            \* what each call of call_api gave, in order
    hc_sleeps,           \* the delays passed to time.sleep, in order
    hc_result,           \* the dict returned, or NoHealthResult
    \* src/17_01_2026_ec2_idle_detector_aws.py: one run of main()
    ec2_pc,              \* "idle", "detect", "detected", "done"
    ec2_instances,       \* what get_running_instances returned
    ec2_i,               \* index of the instance the loop of detect_idle_instances is at
    ec2_dry_run,         \* main(dry_run=...), not args.execute
    cpu_reads,           \* per instance: what get_metric_statistics gave it, "unread" before
    idle_instances,      \* the list detect_idle_instances builds
    terminate_calls,     \* instances handed to ec2.terminate_instances, in order
    termination          \* the dict terminate_instances returned, or NoTermination

pass_vars == << services, force, dry_run, MAX_WORKERS, phase, loop_i,
                services_to_rotate, work_queue, future, cert_data, reload_ok,
                result, rotation_results, yielded, issue_posts, reload_calls,
                summary, cert_reads, exit_code >>
transport_vars == << tr_method, tr_pc, tr_total, tr_history, tr_waits >>
expiry_vars == << expiry_iso, lead_time, days_left, parse_errors, due, ev_pc >>
health_vars == << hc_pc, hc_attempts, hc_calls, hc_sleeps, hc_result >>
ec2_vars == << ec2_pc, ec2_instances, ec2_i, ec2_dry_run, cpu_reads, idle_instances,
               terminate_calls, termination >>

vars == << pass_vars, now, transport_vars, expiry_vars, health_vars, ec2_vars >>

----------------------------------------------------------------------------
(* Bounds of the model *)

MaxBatch == 2        \* longest service list
MaxCeiling == 2      \* largest configured MAX_WORKERS

----------------------------------------------------------------------------
(* Program constants *)

ROTATION_BEFORE_DAYS == 30
HoursPerDay == 24
\* fake_expiry_date = "2026-02-15T00:00:00Z", as an hour count on the model's clock
FAKE_EXPIRY == 1000

NoName == "<no name>"
NoResult == [service |-> "", status |-> "none", error |-> ""]
NoSummary == [total |-> -1, successful |-> -1, failed |-> -1, partial |-> -1]

ERR_NO_CERT == "Failed to get new certificate"
ERR_RELOAD == "Certificate rotated but service reload failed"
ERR_EXCEPTION == "str(e)"

\* An entry of the configuration that is a mapping.
ServiceDict(name, has_cert_path, method) ==
    [is_dict |-> TRUE, name |-> name, cert_path |-> has_cert_path,
     reload_method |-> method]

\* An entry of the configuration that is no mapping (a string, a number, null).
NotADict ==
    [is_dict |-> FALSE, name |-> NoName, cert_path |-> FALSE, reload_method |-> "http"]

\* The three entries of create_sample_config, and malformed variants of them.
ServicePool ==
    { ServiceDict("payments-api", TRUE, "http"),
      ServiceDict("orders-api", TRUE, "kubernetes"),
      ServiceDict("auth-service", TRUE, "systemd"),
      ServiceDict("payments-api", TRUE, "ftp"),
      ServiceDict(NoName, FALSE, "http"),
      NotADict }

\* The instants the clock can show: 31 days before the fake expiry (not due),
\* one hour later (30 days and 23 hours: due), one hour after the expiry.
Instants ==
    { FAKE_EXPIRY - (ROTATION_BEFORE_DAYS + 1) * HoursPerDay,
      FAKE_EXPIRY - (ROTATION_BEFORE_DAYS + 1) * HoursPerDay + 1,
      FAKE_EXPIRY + 1 }

StartInstant == FAKE_EXPIRY - (ROTATION_BEFORE_DAYS + 1) * HoursPerDay

----------------------------------------------------------------------------
(* Pure functions *)

\* service.get("name", "unknown")
service_name(s) == IF s.name = NoName THEN "unknown" ELSE s.name

\* (expiry - datetime.now(timezone.utc)).days: timedelta.days is the floor
days_until_expiry(expiry, t) == (expiry - t) \div HoursPerDay

\* Variant: the comparison of line 342 is strict.
is_due_strict(days, lead) == days < lead

\* Line 342, for a configured lead time: days_left <= ROTATION_BEFORE_DAYS
is_due(days, lead) == days <= lead

\* days_left <= ROTATION_BEFORE_DAYS
rotation_needed(days) == is_due(days, ROTATION_BEFORE_DAYS)

\* Variant: --force is ignored and the expiry decides for every service.
selects_ignoring_force(forced, t) ==
    rotation_needed(days_until_expiry(FAKE_EXPIRY, t))

\* Variant: the loop appends every service it looks at.
selects_always(forced, t) == TRUE

\* Lines 334-346: whether the loop appends the service, at instant t
selects(forced, t) ==
    forced \/ rotation_needed(days_until_expiry(FAKE_EXPIRY, t))

\* An expiry value as days_until_expiry can receive it: its Python type, and
\* for a string whether its body is an ISO-8601 date-time, the wall-clock
\* hour it names and its zone suffix.
ExpiryValue(type, iso, wall, suffix) ==
    [type |-> type, iso |-> iso, wall |-> wall, suffix |-> suffix]

\* Lines 113-114: a trailing 'Z' is rewritten to '+00:00'.
strip_z(v) == IF v.suffix = "Z" THEN [v EXCEPT !.suffix = "+00:00"] ELSE v

\* datetime.fromisoformat accepts the string (line 116).  A 'Z' suffix is
\* not accepted by the Python versions the rewrite is there for.
fromisoformat_ok(v) == v.iso /\ v.suffix \in {"", "+00:00", "+02:00"}

\* Hours east of UTC of a parsed value; a naive value is taken as UTC
\* (lines 117-118).
utc_offset(suffix) == IF suffix = "+02:00" THEN 2 ELSE 0

\* Variant: the value is returned as whole days rounded toward zero.
expiry_days_truncating(v, t) ==
    IF v.type # "str" \/ ~fromisoformat_ok(strip_z(v))
    THEN [days |-> 0, logged |-> 1]
    ELSE LET h == (v.wall - utc_offset(strip_z(v).suffix)) - t IN
         [days |-> IF h >= 0 THEN h \div HoursPerDay ELSE -((-h) \div HoursPerDay),
          logged |-> 0]

\* Variant: an unparseable value is reported as far from expiry.
expiry_days_skipping(v, t) ==
    IF v.type # "str" \/ ~fromisoformat_ok(strip_z(v))
    THEN [days |-> ROTATION_BEFORE_DAYS + 1, logged |-> 1]
    ELSE [days |-> days_until_expiry(v.wall - utc_offset(strip_z(v).suffix), t),
          logged |-> 0]

\* days_until_expiry on an expiry value, lines 109-124: the int returned and
\* the number of errors logged.  A value that is no string has no endswith
\* (AttributeError), a string that is no ISO date-time makes fromisoformat
\* raise ValueError; both are caught at line 122 and give 0.
expiry_days(v, t) ==
    IF v.type # "str" \/ ~fromisoformat_ok(strip_z(v))
    THEN [days |-> 0, logged |-> 1]
    ELSE [days |-> days_until_expiry(v.wall - utc_offset(strip_z(v).suffix), t),
          logged |-> 0]

\* Variant: the `if not cert_data` check is left out.
cert_missing_never(cd) == FALSE

\* `if not cert_data`: None and {} are both falsy
cert_missing(cd) == cd # "cert"

\* Variant: a failed reload is reported like a successful one.
rotation_status_optimistic(issued, reloaded) ==
    IF ~issued THEN "failed" ELSE "success"

\* The dict rotate_certificate returns once issuance and reload are known.
rotation_status(issued, reloaded) ==
    IF ~issued THEN "failed"
    ELSE IF reloaded THEN "success" ELSE "partial"

Outcome(name, status, error) == [service |-> name, status |-> status, error |-> error]

\* Variant: one thread per submitted task, whatever the ceiling.
worker_free_always(in_flight, ceiling) == TRUE

\* A worker thread takes the next work item only if one of the MAX_WORKERS
\* threads is free.
InFlight == { k \in DOMAIN future : future[k] \in {"issue", "reload"} }

\* Variant: one of the worker threads never takes a task.
worker_free_reserving(in_flight, ceiling) == Cardinality(in_flight) < ceiling - 1
worker_free(in_flight, ceiling) == Cardinality(in_flight) < ceiling

\* Variant: the report is written as soon as one future has been yielded.
all_collected_any(fut, selected) ==
    \E j \in 1..Len(selected) : fut[selected[j]] = "collected"

\* as_completed is exhausted when every submitted future has been yielded.
all_collected(fut, selected) ==
    \A j \in 1..Len(selected) : fut[selected[j]] = "collected"

\* Variant: results of failed rotations are not appended.
collect_dropping_failed(results, r) ==
    IF r.status = "failed" THEN results ELSE Append(results, r)

\* rotation_results.append(result)
collect(results, r) == Append(results, r)

CountStatus(results, st) ==
    Cardinality({ j \in 1..Len(results) : results[j].status = st })

----------------------------------------------------------------------------
(* Initial state: main() has parsed its arguments and loaded the services.  *)

\* Retry(total=3, ...), line 63
RETRY_TOTAL == 3

\* No request is being sent through the session.
TransportIdle ==
    /\ tr_method = "none"
    /\ tr_pc = "idle"
    /\ tr_total = RETRY_TOTAL
    /\ tr_history = << >>
    /\ tr_waits = << >>

NoHealthResult == [status |-> "none", attempts |-> 0]
NoTermination == [terminated |-> << >>, failed |-> << >>, returned |-> FALSE]

\* check_service_health is not running.
HealthIdle ==
    /\ hc_pc = "idle"
    /\ hc_attempts = 0
    /\ hc_calls = << >>
    /\ hc_sleeps = << >>
    /\ hc_result = NoHealthResult

\* The idle detector is not running.
Ec2Idle ==
    /\ ec2_pc = "idle"
    /\ ec2_instances = << >>
    /\ ec2_i = 1
    /\ ec2_dry_run = TRUE
    /\ cpu_reads = << >>
    /\ idle_instances = << >>
    /\ terminate_calls = << >>
    /\ termination = NoTermination

\* No expiry value is being evaluated.
EvaluatorIdle ==
    /\ expiry_iso = ExpiryValue("NoneType", FALSE, 0, "")
    /\ lead_time = ROTATION_BEFORE_DAYS
    /\ days_left = 0
    /\ parse_errors = 0
    /\ due = FALSE
    /\ ev_pc = "idle"

\* The state of main() at line 317 for a given configuration file and
\* MAX_WORKERS setting.
Loaded(batch, ceiling) ==
    /\ TransportIdle
    /\ EvaluatorIdle
    /\ HealthIdle
    /\ Ec2Idle
    /\ cert_reads = [k \in DOMAIN batch |-> 0]
    /\ exit_code = -1
    /\ services = batch
    /\ force \in BOOLEAN
    /\ dry_run \in BOOLEAN
    /\ MAX_WORKERS = ceiling
    /\ now = StartInstant
    /\ phase = "loaded"
    /\ loop_i = 1
    /\ services_to_rotate = << >>
    /\ work_queue = << >>
    /\ future = [k \in DOMAIN batch |-> "none"]
    /\ cert_data = [k \in DOMAIN batch |-> "unset"]
    /\ reload_ok = [k \in DOMAIN batch |-> "unset"]
    /\ result = [k \in DOMAIN batch |-> NoResult]
    /\ rotation_results = << >>
    /\ yielded = << >>
    /\ issue_posts = [k \in DOMAIN batch |-> 0]
    /\ reload_calls = [k \in DOMAIN batch |-> << >>]
    /\ summary = NoSummary

Init ==
    \E n \in 0..MaxBatch : \E batch \in [1..n -> ServicePool] :
        \E ceiling \in 1..MaxCeiling : Loaded(batch, ceiling)

task_vars == << future, cert_data, reload_ok, result, issue_posts, reload_calls, work_queue >>
config_vars == << services, force, dry_run, MAX_WORKERS >>
\* What no step of a pass touches: main() never reads the current
\* certificate, and the session and the evaluator are modelled on their own.
idle_vars == << cert_reads, transport_vars, expiry_vars, health_vars, ec2_vars >>

----------------------------------------------------------------------------
(* main(): lines 316-350 *)

\* `if not services: return`; otherwise the selection loop starts.
CheckLoaded ==
    /\ phase = "loaded"
    /\ phase' = IF Len(services) = 0 THEN "returned" ELSE "select"
    /\ UNCHANGED << idle_vars, exit_code, config_vars, now, loop_i, services_to_rotate, task_vars,
                    rotation_results, yielded, summary >>

\* One iteration of `for service in services` (lines 331-346).
Select ==
    /\ phase = "select"
    /\ loop_i <= Len(services)
    /\ LET s == services[loop_i] IN
       IF ~s.is_dict
       THEN \* service.get raises AttributeError: main() dies with a traceback
            /\ phase' = "crashed"
            /\ UNCHANGED << now, loop_i, services_to_rotate >>
       ELSE \* the clock is read only at line 340, when --force is absent
            /\ \E t \in (IF force THEN {now} ELSE { u \in Instants : u >= now }) :
                 /\ now' = t
                 /\ services_to_rotate' =
                      IF selects(force, t)
                      THEN Append(services_to_rotate, loop_i)
                      ELSE services_to_rotate
            /\ loop_i' = loop_i + 1
            /\ phase' = phase
    /\ UNCHANGED << idle_vars, exit_code, config_vars, task_vars, rotation_results, yielded, summary >>

\* After the loop: `if not services_to_rotate: return`, else open the executor.
EndSelect ==
    /\ phase = "select"
    /\ loop_i > Len(services)
    /\ phase' = IF Len(services_to_rotate) = 0 THEN "returned" ELSE "submit"
    /\ loop_i' = 1
    /\ UNCHANGED << idle_vars, exit_code, config_vars, now, services_to_rotate, task_vars,
                    rotation_results, yielded, summary >>

----------------------------------------------------------------------------
(* main(): lines 355-363, the executor *)

\* executor.submit(rotator.rotate_certificate, service), once per selected
\* service, in list order; workers may start tasks while main() still submits.
Submit ==
    /\ phase = "submit"
    /\ LET k == services_to_rotate[loop_i] IN
       /\ future' = [future EXCEPT ![k] = "queued"]
       /\ work_queue' = Append(work_queue, k)
    /\ loop_i' = loop_i + 1
    /\ phase' = IF loop_i = Len(services_to_rotate) THEN "collect" ELSE "submit"
    /\ UNCHANGED << idle_vars, exit_code, config_vars, now, services_to_rotate, cert_data, reload_ok,
                    result, issue_posts, reload_calls, rotation_results, yielded, summary >>

\* A free worker thread takes the oldest work item and enters
\* rotate_certificate (lines 202-206).
Start ==
    /\ work_queue # << >>
    /\ worker_free(InFlight, MAX_WORKERS)
    /\ LET k == Head(work_queue) IN
       future' = [future EXCEPT ![k] =
                     IF services[k].is_dict THEN "issue" ELSE "raised"]
    /\ work_queue' = Tail(work_queue)
    /\ UNCHANGED << idle_vars, exit_code, config_vars, now, phase, loop_i, services_to_rotate, cert_data,
                    reload_ok, result, issue_posts, reload_calls, rotation_results,
                    yielded, summary >>

----------------------------------------------------------------------------
(* CertificateRotator: lines 89-107 and 126-198 *)

\* What the store can do with an issuance POST: answer with certificate data,
\* answer with no data or fail with a RequestException (None or {}), or make
\* the client raise something else (a payload that is no JSON object).
StoreReplies == {"cert", "none", "raise"}

\* What a reload mechanism can do: succeed (non-error status, exit code 0),
\* report an error (HTTP error status, non-zero exit code), run into its
\* timeout (requests Timeout, subprocess.TimeoutExpired), or raise anything
\* else (connection error, missing binary, TypeError on a None argument).
MechanismReplies == {"ok", "error", "timeout", "raise"}

\* Variant: the dry-run short cut of lines 92-94 is missing, the store is
\* asked in dry-run mode too.
request_new_certificate_live(dry, reply) == reply

\* request_new_certificate: the value returned (or "raise")
request_new_certificate(dry, reply) == IF dry THEN "cert" ELSE reply

\* Variant: the dry-run short cut of request_new_certificate is missing.
issuance_posts_always(dry) == 1

\* request_new_certificate: the number of POSTs it sends
issuance_posts(dry) == IF dry THEN 0 ELSE 1

recognized(method) == method \in {"http", "systemd", "kubernetes"}

\* Variant: the status or exit code of the mechanism is not looked at.
reload_via_unchecked(dry, reply) == dry \/ reply \in {"ok", "error"}

\* Variant: only a reported error counts; a timeout or exception passes for
\* a reload.
reload_via_unguarded(dry, reply) == dry \/ reply \in {"ok", "timeout", "raise"}

\* _reload_via_http / _reload_via_systemd / _reload_via_kubernetes: TRUE in
\* dry-run mode; otherwise TRUE iff raise_for_status passes (http) or
\* returncode == 0 (systemd, kubernetes); the handlers of lines 156, 176,
\* 196 and 141 turn every exception into FALSE.
reload_via(dry, reply) == dry \/ reply = "ok"

\* Variant: an unknown method falls back to the HTTP reload.
reload_service_default_http(method, dry, reply) == reload_via(dry, reply)

\* reload_service: the boolean returned
reload_service(method, dry, reply) ==
    IF recognized(method) THEN reload_via(dry, reply) ELSE FALSE

\* reload_service: the mechanisms it invokes, each with whether it succeeded
\* (non-error status, exit code 0) or not (error, timeout, exception)
mechanisms_invoked(method, dry, reply) ==
    IF recognized(method) /\ ~dry
    THEN << [mechanism |-> method, succeeded |-> reply = "ok"] >>
    ELSE << >>

----------------------------------------------------------------------------
(* rotate_certificate: lines 200-247 *)

\* Variant: the issued certificate is kept in one attribute shared by all
\* tasks, so a task sees the failed issuance of another.
rotate_certificate_result_shared(k, issued, reloaded) ==
    LET mine == issued /\ \A j \in DOMAIN cert_data : cert_data[j] # "none" IN
    Outcome(service_name(services[k]), rotation_status(mine, reloaded),
            IF ~mine THEN ERR_NO_CERT ELSE IF reloaded THEN "" ELSE ERR_RELOAD)

\* The dict returned at lines 215-220, 227-231 or 233-238 by the task of
\* service k.
rotate_certificate_result(k, issued, reloaded) ==
    Outcome(service_name(services[k]), rotation_status(issued, reloaded),
            IF ~issued THEN ERR_NO_CERT ELSE IF reloaded THEN "" ELSE ERR_RELOAD)

\* Variant: the exception handler reports a status of its own.
exception_result_error(k) == Outcome(service_name(services[k]), "error", ERR_EXCEPTION)

\* The dict returned by the exception handler, lines 240-247.
exception_result(k) == Outcome(service_name(services[k]), "failed", ERR_EXCEPTION)

\* Variant: a failed issuance is requested again.
after_issuance_retry(cd) == IF cert_missing(cd) THEN "issue" ELSE "reload"

\* Where the task goes after the issuance step.
after_issuance(cd) == IF cert_missing(cd) THEN "done" ELSE "reload"

\* Variant: cert_data and the returned dict are attributes of the rotator,
\* which all tasks share.
task_local_shared(f, k, v) == [j \in DOMAIN f |-> v]

\* A local variable (cert_data) or return value of the call of
\* rotate_certificate for service k is set: every call has its own.
task_local(f, k, v) == [f EXCEPT ![k] = v]

\* Lines 208-220 and the handler of lines 240-247.
Issue(k) ==
    /\ future[k] = "issue"
    /\ LET s == services[k] IN
       IF ~s.cert_path
       THEN \* service["cert_path"] raises KeyError, caught at line 240
            /\ result' = task_local(result, k, exception_result(k))
            /\ future' = [future EXCEPT ![k] = "done"]
            /\ UNCHANGED << cert_data, issue_posts >>
       ELSE \E reply \in StoreReplies :   \* not looked at in dry-run mode
            LET cd == request_new_certificate(dry_run, reply) IN
            /\ issue_posts' = [issue_posts EXCEPT ![k] = @ + issuance_posts(dry_run)]
            /\ IF cd = "raise"
               THEN /\ result' = task_local(result, k, exception_result(k))
                    /\ future' = [future EXCEPT ![k] = "done"]
                    /\ UNCHANGED cert_data
               ELSE /\ cert_data' = task_local(cert_data, k, cd)
                    /\ future' = [future EXCEPT ![k] = after_issuance(cd)]
                    /\ result' = IF after_issuance(cd) = "done"
                                 THEN task_local(result, k,
                                          rotate_certificate_result(k, FALSE, FALSE))
                                 ELSE result
    /\ UNCHANGED << idle_vars, exit_code, config_vars, now, phase, loop_i, services_to_rotate, work_queue,
                    reload_ok, reload_calls, rotation_results, yielded, summary >>

\* Lines 224-238.
Reload(k) ==
    /\ future[k] = "reload"
    /\ LET s == services[k] IN
       \E reply \in MechanismReplies :   \* not looked at in dry-run mode
       LET ok == reload_service(s.reload_method, dry_run, reply) IN
       /\ reload_calls' = [reload_calls EXCEPT ![k] =
                              @ \o mechanisms_invoked(s.reload_method, dry_run, reply)]
       /\ reload_ok' = [reload_ok EXCEPT ![k] = IF ok THEN "true" ELSE "false"]
       /\ result' = task_local(result, k, rotate_certificate_result(k, TRUE, ok))
       /\ future' = [future EXCEPT ![k] = "done"]
    /\ UNCHANGED << idle_vars, exit_code, config_vars, now, phase, loop_i, services_to_rotate, work_queue,
                    cert_data, issue_posts, rotation_results, yielded, summary >>

----------------------------------------------------------------------------
(* main(): lines 361-376 *)

\* One iteration of `for future in as_completed(...)`: future.result() of a
\* finished future is appended; a future that holds an exception re-raises it.
Collect(k) ==
    /\ phase = "collect"
    /\ future[k] \in {"done", "raised"}
    /\ IF future[k] = "raised"
       THEN /\ phase' = "crashed"
            /\ UNCHANGED << future, rotation_results, yielded >>
       ELSE /\ rotation_results' = collect(rotation_results, result[k])
            /\ yielded' = Append(yielded, k)
            /\ future' = [future EXCEPT ![k] = "collected"]
            /\ phase' = phase
    /\ UNCHANGED << idle_vars, exit_code, config_vars, now, loop_i, services_to_rotate, work_queue,
                    cert_data, reload_ok, result, issue_posts, reload_calls, summary >>

\* Lines 365-376: the summary report, once as_completed is exhausted and the
\* `with` block has joined the workers.
Summarize ==
    /\ phase = "collect"
    /\ all_collected(future, services_to_rotate)
    /\ summary' = [total |-> Len(rotation_results),
                   successful |-> CountStatus(rotation_results, "success"),
                   failed |-> CountStatus(rotation_results, "failed"),
                   partial |-> CountStatus(rotation_results, "partial")]
    /\ phase' = "summarized"
    /\ UNCHANGED << idle_vars, exit_code, config_vars, now, loop_i, services_to_rotate, task_vars,
                    rotation_results, yielded >>

\* Lines 384-385: main() is the whole script.  Returning from it (lines 320,
\* 350, or falling off the end after the summary) ends the interpreter with
\* status 0, an uncaught exception with status 1; sys.exit is never called.
exit_status(ph) == IF ph = "crashed" THEN 1 ELSE 0

Exit ==
    /\ exit_code = -1
    /\ phase \in {"returned", "summarized", "crashed"}
    \* leaving the `with` block of line 355 joins the workers first
    /\ work_queue = << >>
    /\ InFlight = {}
    /\ exit_code' = exit_status(phase)
    /\ UNCHANGED << idle_vars, config_vars, now, phase, loop_i, services_to_rotate,
                    task_vars, rotation_results, yielded, summary >>

Next ==
    \/ CheckLoaded
    \/ Select
    \/ EndSelect
    \/ Submit
    \/ Start
    \/ \E k \in DOMAIN services : Issue(k)
    \/ \E k \in DOMAIN services : Reload(k)
    \/ \E k \in DOMAIN services : Collect(k)
    \/ Summarize
    \/ Exit

Spec == Init /\ [][Next]_vars

\* The pass over the three services of create_sample_config (lines 270-293),
\* with fewer worker threads than services.
SampleServices ==
    << ServiceDict("payments-api", TRUE, "http"),
       ServiceDict("orders-api", TRUE, "kubernetes"),
       ServiceDict("auth-service", TRUE, "systemd") >>

SampleInit == Loaded(SampleServices, Len(SampleServices) - 1)

SpecSample == SampleInit /\ [][Next]_vars

\* The pass under the scheduling the interpreter gives it: the main thread
\* keeps running, an idle worker thread takes the oldest queued task, and
\* every call a task makes (issuance POST, reload mechanism) returns or
\* raises within its timeout, so a task that can take its next step does.
Fairness ==
    /\ WF_vars(CheckLoaded)
    /\ WF_vars(Select)
    /\ WF_vars(EndSelect)
    /\ WF_vars(Submit)
    /\ WF_vars(Start)
    /\ \A k \in 1..MaxBatch : WF_vars(k \in DOMAIN services /\ Issue(k))
    /\ \A k \in 1..MaxBatch : WF_vars(k \in DOMAIN services /\ Reload(k))
    /\ \A k \in 1..MaxBatch : WF_vars(k \in DOMAIN services /\ Collect(k))
    /\ WF_vars(Summarize)
    /\ WF_vars(Exit)

SpecFair == Init /\ [][Next]_vars /\ Fairness

----------------------------------------------------------------------------
(* The expiry evaluation on its own: days_until_expiry (lines 109-124)     *)
(* followed by the test of line 342, for any expiry value and lead time.   *)

\* No pass is running.
NoPass ==
    /\ services = << >>
    /\ force = FALSE
    /\ dry_run = FALSE
    /\ MAX_WORKERS = 1
    /\ phase = "none"
    /\ loop_i = 1
    /\ services_to_rotate = << >>
    /\ work_queue = << >>
    /\ future = << >>
    /\ cert_data = << >>
    /\ reload_ok = << >>
    /\ result = << >>
    /\ rotation_results = << >>
    /\ yielded = << >>
    /\ issue_posts = << >>
    /\ reload_calls = << >>
    /\ summary = NoSummary
    /\ cert_reads = << >>
    /\ exit_code = -1

\* Wall-clock hours named by the expiry strings: from a day before the
\* clock to 40 days after it, on and off day boundaries.
WallHours ==
    { -25, -24, -1, 0, 1, 8, 5 * HoursPerDay, 10 * HoursPerDay, 10 * HoursPerDay + 7,
      ROTATION_BEFORE_DAYS * HoursPerDay, (ROTATION_BEFORE_DAYS + 1) * HoursPerDay - 1,
      (ROTATION_BEFORE_DAYS + 1) * HoursPerDay, 40 * HoursPerDay }

ExpiryValues ==
    { ExpiryValue("str", TRUE, w, z) : w \in WallHours, z \in {"Z", "", "+00:00", "+02:00"} }
    \cup { ExpiryValue("str", FALSE, 0, ""),       \* "not-a-date", ""
           ExpiryValue("str", FALSE, 0, "Z"),      \* "soonZ"
           ExpiryValue("NoneType", FALSE, 0, ""),  \* a missing value
           ExpiryValue("int", FALSE, 0, "") }      \* a number

EvalInstants == {0, 7}
LeadTimes == {0, 1, ROTATION_BEFORE_DAYS}

ExpiryInit ==
    /\ NoPass
    /\ TransportIdle
    /\ HealthIdle
    /\ Ec2Idle
    /\ expiry_iso \in ExpiryValues
    /\ lead_time \in LeadTimes
    /\ now \in EvalInstants
    /\ days_left = 0
    /\ parse_errors = 0
    /\ due = FALSE
    /\ ev_pc = "start"

\* days_left = rotator.days_until_expiry(...), line 340
EvalDays ==
    /\ ev_pc = "start"
    /\ LET r == expiry_days(expiry_iso, now) IN
       /\ days_left' = r.days
       /\ parse_errors' = parse_errors + r.logged
    /\ ev_pc' = "days"
    /\ UNCHANGED << pass_vars, now, transport_vars, health_vars, ec2_vars, expiry_iso, lead_time,
                    due >>

\* if days_left <= ROTATION_BEFORE_DAYS, line 342
EvalDue ==
    /\ ev_pc = "days"
    /\ due' = is_due(days_left, lead_time)
    /\ ev_pc' = "done"
    /\ UNCHANGED << pass_vars, now, transport_vars, health_vars, ec2_vars, expiry_iso, lead_time,
                    days_left, parse_errors >>

ExpiryNext == EvalDays \/ EvalDue

SpecExpiry == ExpiryInit /\ [][ExpiryNext]_vars

----------------------------------------------------------------------------
(* The session of _create_session (lines 57-72) on its own: one request     *)
(* sent through the HTTPAdapter whose max_retries is the Retry object of    *)
(* lines 62-66.  The adapter hands the Retry object to urllib3's urlopen,   *)
(* which calls Retry.is_retry / Retry.increment / Retry.sleep after every   *)
(* attempt.  Responses carry no Retry-After header and are no redirects.    *)

\* backoff_factor=1, line 64
BACKOFF_FACTOR == 1

\* status_forcelist, line 65
STATUS_FORCELIST == {429, 500, 502, 503, 504}

\* allowed_methods is not passed at lines 62-66, so Retry keeps its default,
\* the idempotent methods: POST is not among them.
DEFAULT_ALLOWED_METHODS == {"HEAD", "GET", "PUT", "DELETE", "OPTIONS", "TRACE"}

\* session.get (line 80) and session.post (lines 100 and 152)
SessionMethods == {"GET", "POST"}

\* How one attempt can end: the connection cannot be established (refused,
\* connect timeout), the request was sent and the reply does not arrive (read
\* timeout, connection reset), or a response with a status arrives.
ConnectError == [kind |-> "connect_error", status |-> 0]
ReadError == [kind |-> "read_error", status |-> 0]
Response(status) == [kind |-> "response", status |-> status]
Statuses == {200, 404} \cup STATUS_FORCELIST
AttemptOutcomes == {ConnectError, ReadError} \cup { Response(st) : st \in Statuses }

\* Retry._is_method_retryable
is_method_retryable(method) == method \in DEFAULT_ALLOWED_METHODS

\* Whether urllib3 goes for another attempt after this one: a failure to
\* connect is retried for every method (the server did not see the request);
\* a read error and a status of the forcelist only for a retryable method
\* (Retry.increment, Retry.is_retry).
wants_retry(method, outcome) ==
    CASE outcome.kind = "connect_error" -> TRUE
      [] outcome.kind = "read_error" -> is_method_retryable(method)
      [] OTHER -> is_method_retryable(method) /\ outcome.status \in STATUS_FORCELIST

\* Retry.is_exhausted, for the counter left after Retry.increment
is_exhausted(total) == total < 0

\* Variant: the first retry already waits backoff_factor seconds.
backoff_time_from_first(factor, errors) == factor * 2 ^ (errors - 1)

\* Retry.get_backoff_time after `errors` consecutive failed attempts: nothing
\* before the first retry, then factor * 2^(errors - 1) (the cap of 120 s is
\* out of reach of RETRY_TOTAL retries).
backoff_time(factor, errors) ==
    IF errors <= 1 THEN 0 ELSE factor * 2 ^ (errors - 1)

TransportInit ==
    /\ NoPass
    /\ EvaluatorIdle
    /\ HealthIdle
    /\ Ec2Idle
    /\ now = StartInstant
    /\ tr_method \in SessionMethods
    /\ tr_pc = "send"
    /\ tr_total = RETRY_TOTAL
    /\ tr_history = << >>
    /\ tr_waits = << >>

\* One attempt and what urlopen makes of it: another attempt after a
\* backoff, the response handed to the caller ("returned": raise_for_status
\* is the caller's), or an exception ("raised": the error itself when it is
\* not retried, MaxRetryError when the retries are used up).
TrAttempt ==
    /\ tr_pc = "send"
    /\ \E outcome \in AttemptOutcomes :
         /\ tr_history' = Append(tr_history, outcome)
         /\ IF wants_retry(tr_method, outcome)
            THEN /\ tr_total' = tr_total - 1
                 /\ tr_pc' = IF is_exhausted(tr_total - 1) THEN "raised" ELSE "backoff"
            ELSE /\ tr_total' = tr_total
                 /\ tr_pc' = IF outcome.kind = "response" THEN "returned" ELSE "raised"
    /\ UNCHANGED << pass_vars, now, expiry_vars, health_vars, ec2_vars, tr_method, tr_waits >>

\* Retry.sleep before the next attempt.
TrSleep ==
    /\ tr_pc = "backoff"
    /\ tr_waits' = Append(tr_waits, backoff_time(BACKOFF_FACTOR, Len(tr_history)))
    /\ tr_pc' = "send"
    /\ UNCHANGED << pass_vars, now, expiry_vars, health_vars, ec2_vars, tr_method, tr_total,
                    tr_history >>

TransportNext == TrAttempt \/ TrSleep

SpecTransport == TransportInit /\ [][TransportNext]_vars

----------------------------------------------------------------------------
(* src/16_01_2026_health_checker_simple.py: check_service_health (lines     *)
(* 34-85) for one service, against every behaviour of call_api             *)

\* Lines 17-18
MAX_RETRIES == 3
BASE_DELAY == 1

\* call_api (lines 20-32): the status it returns, or 0 for the
\* ConnectionError it raises.
CONNECTION_ERROR == 0
ApiOutcomes == {200, 500, 502, 503, 504, CONNECTION_ERROR}

\* Variant: the loop stops one attempt early.
attempts_left_strict(attempts) == attempts < MAX_RETRIES

\* `while attempts <= MAX_RETRIES`, line 48
attempts_left(attempts) == attempts <= MAX_RETRIES

\* `if attempts <= MAX_RETRIES`, line 72: another attempt follows
retry_follows(attempts) == attempts <= MAX_RETRIES

\* Variant: the delay grows by BASE_DELAY per attempt.
retry_delay_linear(attempts) == BASE_DELAY * attempts

\* delay = BASE_DELAY * (2 ** (attempts - 1)), line 73
retry_delay(attempts) == BASE_DELAY * 2 ^ (attempts - 1)

\* The dicts returned at lines 59-64 and 80-85 (without the timings)
HealthResult(status, attempts) == [status |-> status, attempts |-> attempts]

HealthInit ==
    /\ NoPass
    /\ TransportIdle
    /\ EvaluatorIdle
    /\ Ec2Idle
    /\ now = StartInstant
    /\ hc_pc = "loop"
    /\ hc_attempts = 0
    /\ hc_calls = << >>
    /\ hc_sleeps = << >>
    /\ hc_result = NoHealthResult

\* One iteration of the loop up to line 69: count the attempt, call the
\* service, return UP on a 200.
HcAttempt ==
    /\ hc_pc = "loop"
    /\ attempts_left(hc_attempts)
    /\ hc_attempts' = hc_attempts + 1
    /\ \E outcome \in ApiOutcomes :
         /\ hc_calls' = Append(hc_calls, outcome)
         /\ IF outcome = 200
            THEN /\ hc_result' = HealthResult("UP", hc_attempts + 1)
                 /\ hc_pc' = "returned"
            ELSE /\ hc_result' = hc_result
                 /\ hc_pc' = "failed"
    /\ UNCHANGED << pass_vars, now, transport_vars, expiry_vars, ec2_vars, hc_sleeps >>

\* Lines 71-75 after a failed attempt: sleep if another attempt follows.
HcBackoff ==
    /\ hc_pc = "failed"
    /\ hc_sleeps' = IF retry_follows(hc_attempts)
                    THEN Append(hc_sleeps, retry_delay(hc_attempts))
                    ELSE hc_sleeps
    /\ hc_pc' = "loop"
    /\ UNCHANGED << pass_vars, now, transport_vars, expiry_vars, ec2_vars, hc_attempts,
                    hc_calls, hc_result >>

\* Lines 77-85: the loop is left, the service is DOWN.
HcDown ==
    /\ hc_pc = "loop"
    /\ ~attempts_left(hc_attempts)
    /\ hc_result' = HealthResult("DOWN", hc_attempts)
    /\ hc_pc' = "returned"
    /\ UNCHANGED << pass_vars, now, transport_vars, expiry_vars, ec2_vars, hc_attempts,
                    hc_calls, hc_sleeps >>

HealthNext == HcAttempt \/ HcBackoff \/ HcDown

SpecHealth == HealthInit /\ [][HealthNext]_vars

----------------------------------------------------------------------------
(* src/17_01_2026_ec2_idle_detector_aws.py: one run of main() with the      *)
(* default arguments, against every answer of EC2 and CloudWatch           *)

MaxInstances == 2    \* longest list of running instances

\* --cpu-threshold (line 188, default 5.0) in hundredths of a percent, the
\* precision of round(avg_cpu, 2), and --idle-hours (line 189)
CPU_THRESHOLD == 500
IDLE_HOURS == 24

\* The default protected_tags of line 41, lower-cased there.
PROTECTED_TAGS == {"production", "critical", "database"}

\* Tag values instances carry
TagValues == {"production", "Production", "Critical", "DATABASE", "dev", "production-db"}

\* str.lower on a tag value
lower(v) ==
    CASE v = "Production" -> "production"
      [] v = "Critical" -> "critical"
      [] v = "DATABASE" -> "database"
      [] OTHER -> v

\* A dict of describe_instances: whether InstanceId and LaunchTime are
\* there, the values of its tags in order, and the hours since its launch.
InstanceDict(identified, tags, uptime) ==
    [identified |-> identified, tags |-> tags, uptime |-> uptime]

InstancePool ==
    { InstanceDict(FALSE, << >>, 0),
      InstanceDict(TRUE, << >>, 100),
      InstanceDict(TRUE, << "dev" >>, IDLE_HOURS),
      InstanceDict(TRUE, << "production-db" >>, 100),
      InstanceDict(TRUE, << "dev" >>, IDLE_HOURS - 1),
      InstanceDict(TRUE, << "production" >>, 100),
      InstanceDict(TRUE, << "dev", "Critical" >>, 100),
      InstanceDict(TRUE, << "Production" >>, IDLE_HOURS),
      InstanceDict(TRUE, << "DATABASE" >>, 1) }

\* What get_metric_statistics can do: raise ClientError, answer without
\* datapoints, or answer with datapoints of a given average.
Unread == [kind |-> "unread", avg |-> 0]
MetricReplies ==
    { [kind |-> "client_error", avg |-> 0], [kind |-> "no_datapoints", avg |-> 0] }
    \cup { [kind |-> "datapoints", avg |-> a] : a \in {0, CPU_THRESHOLD - 1, CPU_THRESHOLD, 8000} }

\* get_cpu_utilization (lines 72-96): the float returned
get_cpu_utilization(reply) ==
    IF reply.kind = "datapoints" THEN reply.avg ELSE 0

\* Variant: the tag value is compared as it is written.
is_protected_exact(instance) ==
    \E i \in 1..Len(instance.tags) : instance.tags[i] \in PROTECTED_TAGS

\* is_protected (lines 101-105)
is_protected(instance) ==
    \E i \in 1..Len(instance.tags) : lower(instance.tags[i]) \in PROTECTED_TAGS

\* Lines 118-127: whether the loop goes on to read the CPU of the instance
candidate(instance) ==
    /\ instance.identified
    /\ ~is_protected(instance)
    /\ ~(instance.uptime < IDLE_HOURS)

\* `if cpu_avg < self.cpu_threshold`, line 132
is_idle(cpu_avg) == cpu_avg < CPU_THRESHOLD

Ec2Init ==
    /\ NoPass
    /\ TransportIdle
    /\ EvaluatorIdle
    /\ HealthIdle
    /\ now = StartInstant
    /\ ec2_pc = "detect"
    /\ \E n \in 0..MaxInstances : ec2_instances \in [1..n -> InstancePool]
    /\ ec2_i = 1
    /\ ec2_dry_run \in BOOLEAN
    /\ cpu_reads = [k \in DOMAIN ec2_instances |-> Unread]
    /\ idle_instances = << >>
    /\ terminate_calls = << >>
    /\ termination = NoTermination

\* One iteration of the loop of detect_idle_instances (lines 114-134).
\* Instances are named by their place in the list.
DetectStep ==
    /\ ec2_pc = "detect"
    /\ ec2_i <= Len(ec2_instances)
    /\ IF candidate(ec2_instances[ec2_i])
       THEN \E reply \in MetricReplies :
            /\ cpu_reads' = [cpu_reads EXCEPT ![ec2_i] = reply]
            /\ idle_instances' = IF is_idle(get_cpu_utilization(reply))
                                 THEN Append(idle_instances, ec2_i)
                                 ELSE idle_instances
       ELSE UNCHANGED << cpu_reads, idle_instances >>
    /\ ec2_i' = ec2_i + 1
    /\ UNCHANGED << pass_vars, now, transport_vars, expiry_vars, health_vars, ec2_pc,
                    ec2_instances, ec2_dry_run, terminate_calls, termination >>

\* `return idle_instances`, line 136
DetectEnd ==
    /\ ec2_pc = "detect"
    /\ ec2_i > Len(ec2_instances)
    /\ ec2_pc' = "detected"
    /\ UNCHANGED << pass_vars, now, transport_vars, expiry_vars, health_vars,
                    ec2_instances, ec2_i, ec2_dry_run, cpu_reads, idle_instances,
                    terminate_calls, termination >>

\* The subsequence of q at the places where keep holds.
RECURSIVE SelectPlaces(_, _, _)
SelectPlaces(q, keep, i) ==
    IF i > Len(q) THEN << >>
    ELSE (IF keep[i] THEN << q[i] >> ELSE << >>) \o SelectPlaces(q, keep, i + 1)

\* main(), lines 173-179, with terminate_instances (lines 141-158): nothing
\* to do, the dry-run report, or one terminate call per idle instance, each
\* of which EC2 accepts or refuses with a ClientError.
Terminate ==
    /\ ec2_pc = "detected"
    /\ ec2_pc' = "done"
    /\ IF idle_instances = << >>
       THEN UNCHANGED << terminate_calls, termination >>
       ELSE IF ec2_dry_run
       THEN /\ termination' = [terminated |-> idle_instances, failed |-> << >>,
                               returned |-> TRUE]
            /\ UNCHANGED terminate_calls
       ELSE \E accepted \in [1..Len(idle_instances) -> BOOLEAN] :
            /\ terminate_calls' = idle_instances
            /\ termination' =
                 [terminated |-> SelectPlaces(idle_instances, accepted, 1),
                  failed |-> SelectPlaces(idle_instances,
                                          [i \in 1..Len(idle_instances) |-> ~accepted[i]], 1),
                  returned |-> TRUE]
    /\ UNCHANGED << pass_vars, now, transport_vars, expiry_vars, health_vars,
                    ec2_instances, ec2_i, ec2_dry_run, cpu_reads, idle_instances >>

Ec2Next == DetectStep \/ DetectEnd \/ Terminate

SpecEc2 == Ec2Init /\ [][Ec2Next]_vars

----------------------------------------------------------------------------
(* Properties *)

Selected == { services_to_rotate[j] : j \in 1..Len(services_to_rotate) }
Finished(k) == future[k] \in {"done", "collected"}
Issued(k) == cert_data[k] = "cert"
DistinctNames(names) ==
    \A i, j \in 1..Len(names) : i # j => names[i] # names[j]
OutcomeNames == [i \in 1..Len(rotation_results) |-> rotation_results[i].service]

\* C1 (as stated): a completed pass has one outcome per submitted service,
\* the outcomes' service names are pairwise distinct and each is the name of
\* a submitted service.
C1_UniqueMatchingNames ==
    phase = "summarized" =>
        /\ Len(rotation_results) = Len(services_to_rotate)
        /\ DistinctNames(OutcomeNames)
        /\ \A i \in 1..Len(rotation_results) :
               \E k \in Selected :
                   rotation_results[i].service = service_name(services[k])

\* C1 (amended): the outcomes collected so far belong to distinct submitted
\* services and carry service.get("name", "unknown") of their service; a
\* completed pass has exactly one outcome per submitted service, and their
\* names are pairwise distinct if the submitted services' names are.
C1_OneOutcomePerService ==
    /\ Len(rotation_results) = Len(yielded)
    /\ DistinctNames(yielded)
    /\ \A i \in 1..Len(yielded) :
           /\ yielded[i] \in Selected
           /\ rotation_results[i].service = service_name(services[yielded[i]])
    /\ phase = "summarized" =>
           /\ Len(rotation_results) = Len(services_to_rotate)
           /\ DistinctNames([j \in 1..Len(services_to_rotate) |->
                                service_name(services[services_to_rotate[j]])])
                => DistinctNames(OutcomeNames)

C1_Witness ==
    /\ phase = "summarized"
    /\ Len(rotation_results) >= 2
    /\ DistinctNames(OutcomeNames)

\* C2: an outcome is failed exactly when issuance gave no certificate,
\* success exactly when the certificate was issued and the reload reported
\* success, partial exactly when it was issued and the reload reported
\* failure; there is no other status.
C2_StatusFromIssuanceAndReload ==
    \A i \in 1..Len(rotation_results) :
        LET k == yielded[i]
            st == rotation_results[i].status IN
        /\ st \in {"success", "partial", "failed"}
        /\ st = "failed" <=> ~Issued(k)
        /\ st = "success" <=> Issued(k) /\ reload_ok[k] = "true"
        /\ st = "partial" <=> Issued(k) /\ reload_ok[k] = "false"

C2_Witness ==
    /\ phase = "summarized"
    /\ \E i, j \in 1..Len(rotation_results) :
           /\ rotation_results[i].status = "partial"
           /\ rotation_results[j].status = "failed"

\* C3 (as stated): no malformed entry and no exception of a task aborts the
\* pass; a task whose entry is malformed or whose store call raised ends
\* with a failed outcome carrying the error detail.
C3_NoExceptionEscapes ==
    /\ phase # "crashed"
    /\ \A k \in DOMAIN services :
           /\ future[k] # "raised"
           /\ Finished(k) /\ ~services[k].cert_path =>
                  result[k] = Outcome(service_name(services[k]), "failed", ERR_EXCEPTION)

\* C4: the rotations in flight never exceed MAX_WORKERS.
C4_CeilingRespected == Cardinality(InFlight) <= MAX_WORKERS

C4_Witness ==
    /\ Cardinality(InFlight) = MAX_WORKERS
    /\ work_queue # << >>
    /\ Len(services_to_rotate) > MAX_WORKERS

\* C5: once the summary is written, no submitted task is queued or running
\* and every future has been collected.
C5_SummaryAfterJoin ==
    summary # NoSummary =>
        /\ \A k \in Selected : future[k] = "collected"
        /\ work_queue = << >>
        /\ InFlight = {}
        /\ summary.total = Len(services_to_rotate)

C5_Witness ==
    /\ summary # NoSummary
    /\ Len(services_to_rotate) >= 2
    /\ MAX_WORKERS < Len(services_to_rotate)

\* C6: in the pass over the three sample services with two workers, every
\* finished task's status follows from its own issuance and reload alone,
\* every submitted task is collected before the summary, and one failed
\* issuance with the other reloads succeeding gives 1 failed and 2 success.
C6_Isolation ==
    /\ \A k \in DOMAIN services :
           Finished(k) =>
               result[k].status = rotation_status(Issued(k), reload_ok[k] = "true")
    /\ phase = "summarized" =>
           /\ \A k \in Selected : future[k] = "collected"
           /\ ( /\ Cardinality({ k \in Selected : ~Issued(k) }) = 1
                /\ \A k \in Selected : Issued(k) => reload_ok[k] = "true" )
              => /\ summary.failed = 1
                 /\ summary.successful = Len(services_to_rotate) - 1
                 /\ summary.partial = 0

C6_Witness ==
    /\ phase = "summarized"
    /\ Len(services_to_rotate) = Len(SampleServices)
    /\ summary.failed = 1
    /\ summary.successful = Len(SampleServices) - 1
    /\ cert_data[yielded[1]] = "none"

\* The status a service gets in live mode when the store and the reload
\* mechanism both succeed.
LiveStatusWhenAllSucceed(s) ==
    IF ~s.cert_path THEN "failed"
    ELSE rotation_status(~cert_missing(request_new_certificate(FALSE, "cert")),
                         reload_service(s.reload_method, FALSE, "ok"))

\* C7: in dry-run mode no issuance POST is sent and no reload mechanism is
\* invoked, and a service that succeeds in live mode with succeeding
\* collaborators has status success.
C7_DryRunNoSideEffects ==
    dry_run =>
        \A k \in DOMAIN services :
            /\ issue_posts[k] = 0
            /\ reload_calls[k] = << >>
            /\ Finished(k) /\ LiveStatusWhenAllSucceed(services[k]) = "success"
                   => result[k].status = "success"

C7_Witness ==
    /\ dry_run
    /\ phase = "summarized"
    /\ Len(rotation_results) >= 2
    /\ \E i \in 1..Len(rotation_results) : rotation_results[i].status = "success"

C9_IssuedAtMostOnce ==
    \A k \in DOMAIN services :
        /\ issue_posts[k] <= 1
        /\ cert_data[k] = "none" =>
               /\ Finished(k)
               /\ result[k].status = "failed"

C9_Witness ==
    \E k \in DOMAIN services :
        /\ phase = "summarized"
        /\ issue_posts[k] = 1
        /\ cert_data[k] = "none"
        /\ result[k].status = "failed"

\* C10: a task reaches the reload step, has a reload verdict or has invoked
\* a reload mechanism only if its certificate was issued; every partial
\* outcome belongs to a task whose certificate was issued.
C10_ReloadAfterIssuance ==
    \A k \in DOMAIN services :
        /\ (future[k] = "reload" \/ reload_ok[k] # "unset" \/ reload_calls[k] # << >>)
               => Issued(k)
        /\ Finished(k) /\ result[k].status = "partial" => Issued(k)

C10_Witness ==
    \E k \in DOMAIN services :
        /\ future[k] = "collected"
        /\ result[k].status = "partial"
        /\ reload_calls[k] # << >>
        /\ issue_posts[k] = 1

LastAttempt == tr_history[Len(tr_history)]
StatusesOf(history) == [i \in 1..Len(history) |-> history[i].status]
RECURSIVE SumSeq(_)
SumSeq(q) == IF q = << >> THEN 0 ELSE Head(q) + SumSeq(Tail(q))

\* What the claim takes to be retried: connection failures, timeouts
\* included, and the statuses of the forcelist.
RetriedAsClaimed(outcome) ==
    outcome.kind \in {"connect_error", "read_error"} \/ outcome.status \in STATUS_FORCELIST

\* C11: while retries are left, the session retries a request exactly when
\* the attempt ended in a connection failure, a timeout or a status in
\* {429, 500, 502, 503, 504}, for GET and for POST alike.  A POST that is
\* answered with 503, or that times out after it was sent, is not retried.
C11_RetriesConnectionAndForcelist ==
    (tr_pc \in {"backoff", "returned", "raised"} /\ Len(tr_history) <= RETRY_TOTAL) =>
        (tr_pc = "backoff" <=> RetriedAsClaimed(LastAttempt))

\* C12: a request makes at most 4 attempts, a successful attempt is the last
\* one, and the session raises only when the retries are used up.  A POST
\* whose reply times out raises after the first attempt.
C12_RaisesOnlyWhenExhausted ==
    /\ Len(tr_history) <= RETRY_TOTAL + 1
    /\ \A i \in 1..Len(tr_history) :
         tr_history[i] = Response(200) => (i = Len(tr_history) /\ tr_pc = "returned")
    /\ tr_pc = "raised" => Len(tr_history) = RETRY_TOTAL + 1

C14_DueIffWithinLeadTime ==
    ev_pc = "done" =>
        /\ due <=> days_left <= lead_time
        /\ days_left < 0 => due
        /\ days_left = 5 /\ lead_time = 30 => due
        /\ days_left = 40 /\ lead_time = 30 => ~due

C14_Witness ==
    /\ ev_pc = "done"
    /\ days_left < 0
    /\ expiry_iso.wall - utc_offset(expiry_iso.suffix) < now
    /\ due

\* An expiry value that is no string or no ISO-8601 date-time.
Malformed(v) == v.type # "str" \/ ~v.iso

----------------------------------------------------------------------------
\* The selection loop is over.
SelectionDone == phase \in {"submit", "collect", "summarized"}
                 \/ (phase = "returned" /\ Len(services) > 0)

\* C16: without --force, selection reads each service's current certificate
\* from the store (and a failed read gives that service a failed outcome
\* without touching the others).  main() never calls get_current_cert_info:
\* the expiry it evaluates is the literal of line 339.
C16_SelectionReadsStore ==
    (~force /\ SelectionDone) => \A k \in DOMAIN services : cert_reads[k] >= 1

\* C17: with --force every service of the batch is selected, in order, and
\* rotated, whatever its expiry: the clock is not read, the store is not
\* read, and the summary counts one outcome per service.
C17_ForceSelectsAll ==
    (force /\ SelectionDone) =>
        /\ services_to_rotate = [j \in 1..Len(services) |-> j]
        /\ now = StartInstant
        /\ \A k \in DOMAIN services : cert_reads[k] = 0
        /\ phase = "summarized" =>
              /\ summary.total = Len(services)
              /\ \A k \in DOMAIN services : future[k] = "collected"

\* A forced pass over two services whose certificate is not yet due.
C17_Witness ==
    /\ force
    /\ phase = "summarized"
    /\ Len(services) = 2
    /\ ~rotation_needed(days_until_expiry(FAKE_EXPIRY, now))
    /\ services_to_rotate = << 1, 2 >>
    /\ summary.total = 2

----------------------------------------------------------------------------
\* The reload step of service k has been taken in live mode with a
\* recognized method.
LiveReloadDone(k) ==
    /\ ~dry_run
    /\ recognized(services[k].reload_method)
    /\ reload_ok[k] # "unset"

\* C18: in live mode the dispatcher invokes exactly the one mechanism that
\* matches the service's reload method, once, and reports success iff that
\* mechanism succeeded (non-error status for http, exit code 0 for systemd
\* and kubernetes).
C18_OneMatchingMechanism ==
    \A k \in DOMAIN services :
        LiveReloadDone(k) =>
            /\ Len(reload_calls[k]) = 1
            /\ reload_calls[k][1].mechanism = services[k].reload_method
            /\ reload_ok[k] = "true" <=> reload_calls[k][1].succeeded

\* A kubernetes reload whose command exits non-zero, next to an http reload
\* that succeeds.
C18_Witness ==
    /\ ~dry_run
    /\ \E k \in DOMAIN services :
         /\ services[k].reload_method = "kubernetes"
         /\ reload_calls[k] = << [mechanism |-> "kubernetes", succeeded |-> FALSE] >>
         /\ reload_ok[k] = "false"
    /\ \E k \in DOMAIN services :
         /\ services[k].reload_method = "http"
         /\ reload_calls[k] = << [mechanism |-> "http", succeeded |-> TRUE] >>
         /\ reload_ok[k] = "true"

\* C19: for each reload method, a mechanism that does not succeed (it
\* reports an error, runs into its timeout or raises) makes the dispatch
\* return false: the task ends there with status partial, never with an
\* exception and never pending.
C19_ReloadErrorIsPartial ==
    \A k \in DOMAIN services :
        (LiveReloadDone(k) /\ Len(reload_calls[k]) = 1
           /\ ~reload_calls[k][1].succeeded) =>
            /\ reload_ok[k] = "false"
            /\ Finished(k)
            /\ result[k] = Outcome(service_name(services[k]), "partial", ERR_RELOAD)

\* A systemd reload that does not succeed, collected as partial.
C19_Witness ==
    \E k \in DOMAIN services :
        /\ services[k].reload_method = "systemd"
        /\ reload_calls[k] = << [mechanism |-> "systemd", succeeded |-> FALSE] >>
        /\ future[k] = "collected"
        /\ \E i \in 1..Len(rotation_results) :
             rotation_results[i] = Outcome(service_name(services[k]), "partial", ERR_RELOAD)

----------------------------------------------------------------------------
\* C20: the exit code of a pass is 0 when the summary has no failed entry
\* and non-zero when at least one outcome is failed.  main() returns after
\* logging the summary whatever it counted, so the exit code is 0 then.
C20_ExitCodeReflectsFailures ==
    (exit_code # -1 /\ summary # NoSummary) =>
        (exit_code = 0 <=> summary.failed = 0)

----------------------------------------------------------------------------
\* C21: every pass that has loaded a non-empty service list ends by logging
\* the summary, never as a crashed process and never without a summary, a
\* pass that selects nothing included.  main() dies on an entry that is no
\* mapping, and returns at line 350 before the summary when nothing is
\* selected.
C21_EndsWithSummary ==
    (exit_code # -1 /\ Len(services) > 0) =>
        (phase = "summarized" /\ summary # NoSummary)

----------------------------------------------------------------------------
\* C22: once the executor is opened for the selected services, the pass
\* eventually logs its summary with every selected service's future
\* collected: no task is cancelled or left behind, whatever the batch and
\* the number of workers (at least 1).
C22_PassCompletes ==
    (phase = "submit") ~>
        (/\ phase = "summarized"
         /\ summary.total = Len(services_to_rotate)
         /\ \A k \in Selected : future[k] = "collected")

\* Two selected services and a single worker thread, summarized.
C22_Witness ==
    /\ phase = "summarized"
    /\ MAX_WORKERS = 1
    /\ Len(services_to_rotate) = 2
    /\ Len(yielded) = 2
    /\ \A k \in Selected : future[k] = "collected"

----------------------------------------------------------------------------
\* What a dry-run rotation of service s gives, as a function of s alone.
DryRunStatus(s) ==
    IF ~s.cert_path THEN "failed"
    ELSE IF s.reload_method \in {"http", "systemd", "kubernetes"} THEN "success"
    ELSE "partial"

\* C23: in dry-run mode the result of a pass is a function of its inputs:
\* selection is over before any worker runs, two rotations of the same
\* service entry end with the same result whatever the interleaving, and
\* the status of every rotation depends on the service entry alone.
C23_DryRunDeterministic ==
    dry_run =>
        /\ phase \in {"loaded", "select"} =>
              \A k \in DOMAIN services : future[k] = "none"
        /\ \A j, k \in DOMAIN services :
              (services[j] = services[k] /\ Finished(j) /\ Finished(k)) =>
                  result[j] = result[k]
        /\ \A k \in DOMAIN services :
              Finished(k) => result[k].status = DryRunStatus(services[k])

\* The same entry rotated twice in dry-run mode, the second rotation
\* finishing first.
C23_Witness ==
    /\ dry_run
    /\ phase = "summarized"
    /\ Len(services) = 2
    /\ services[1] = services[2]
    /\ yielded = << 2, 1 >>
    /\ result[1] = result[2]
    /\ summary.successful = 2

----------------------------------------------------------------------------
\* C24: the result list is appended to by one writer at a time, the main
\* thread in its as_completed loop, one finished result per step and never
\* together with a write of a task; and a step that sets the certificate
\* data or the result of service k is a step of the running task of k that
\* leaves the data and results of all other tasks alone.
C24_SingleWriter ==
    [][ /\ rotation_results' # rotation_results =>
             /\ phase = "collect"
             /\ \E k \in DOMAIN services :
                  /\ future[k] = "done"
                  /\ future'[k] = "collected"
                  /\ rotation_results' = Append(rotation_results, result[k])
             /\ cert_data' = cert_data
             /\ result' = result
        /\ \A k \in DOMAIN services :
             (cert_data'[k] # cert_data[k] \/ result'[k] # result[k]) =>
                 /\ future[k] \in {"issue", "reload"}
                 /\ \A j \in DOMAIN services \ {k} :
                      cert_data'[j] = cert_data[j] /\ result'[j] = result[j]
      ]_vars

\* The main thread has appended the result of a failed rotation while the
\* task of another service still runs, holding its own certificate.
C24_Witness ==
    \E j, k \in DOMAIN services :
        /\ future[j] = "collected"
        /\ cert_data[j] = "none"
        /\ rotation_results = << result[j] >>
        /\ future[k] = "reload"
        /\ cert_data[k] = "cert"
        /\ result[k] = NoResult

----------------------------------------------------------------------------
\* Hours from the clock reading to the instant the expiry value names.
HoursLeft == (expiry_iso.wall - utc_offset(expiry_iso.suffix)) - now

\* C25: for a well-formed expiry value days_until_expiry returns the floor
\* of (expiry - now) in whole days: an expiry exactly 10 days after now
\* gives 10, and every expiry earlier than now gives a negative value.
C25_FloorOfDays ==
    (ev_pc \in {"days", "done"} /\ ~Malformed(expiry_iso)) =>
        /\ days_left * HoursPerDay <= HoursLeft
        /\ HoursLeft < (days_left + 1) * HoursPerDay
        /\ HoursLeft = 10 * HoursPerDay => days_left = 10
        /\ HoursLeft < 0 => days_left < 0

\* An expiry one hour before the clock reading counts as -1 day.
C25_Witness ==
    /\ ev_pc = "done"
    /\ ~Malformed(expiry_iso)
    /\ HoursLeft = -1
    /\ days_left = -1

----------------------------------------------------------------------------
\* C26: check_service_health returns UP at the first call that gives 200
\* and calls no more; it returns DOWN only after the first attempt and all
\* MAX_RETRIES retries have failed; the attempts it reports are the calls
\* it made, between 1 and MAX_RETRIES + 1.
C26_UpAtFirstSuccess ==
    /\ Len(hc_calls) <= MAX_RETRIES + 1
    /\ \A i \in 1..Len(hc_calls) :
         hc_calls[i] = 200 => (i = Len(hc_calls) /\ hc_pc = "returned")
    /\ hc_pc = "returned" =>
         /\ hc_result.attempts = Len(hc_calls)
         /\ hc_result.attempts \in 1..(MAX_RETRIES + 1)
         /\ hc_result.status = "UP" <=> hc_calls[Len(hc_calls)] = 200
         /\ hc_result.status = "DOWN" <=>
              /\ Len(hc_calls) = MAX_RETRIES + 1
              /\ \A i \in 1..Len(hc_calls) : hc_calls[i] # 200
         /\ hc_result.status \in {"UP", "DOWN"}

\* DOWN after a connection error and three error statuses.
C26_Witness ==
    /\ hc_pc = "returned"
    /\ hc_calls = << CONNECTION_ERROR, 503, 500, 504 >>
    /\ hc_result = HealthResult("DOWN", MAX_RETRIES + 1)

\* C27: the waits between failed attempts are 1 s, 2 s, 4 s (BASE_DELAY *
\* 2^(n-1) after the n-th failed attempt); a wait is made only when another
\* attempt follows, none after the last attempt and none after a success.
C27_ExponentialWaits ==
    /\ \A n \in 1..Len(hc_sleeps) : hc_sleeps[n] = BASE_DELAY * 2 ^ (n - 1)
    /\ Len(hc_sleeps) <= MAX_RETRIES
    /\ hc_pc = "loop" =>
         Len(hc_sleeps) = IF Len(hc_calls) <= MAX_RETRIES THEN Len(hc_calls) ELSE MAX_RETRIES
    /\ hc_pc = "returned" =>
         Len(hc_sleeps) = IF hc_result.status = "UP" THEN Len(hc_calls) - 1 ELSE MAX_RETRIES

\* UP at the fourth attempt, after waits of 1, 2 and 4 seconds.
C27_Witness ==
    /\ hc_pc = "returned"
    /\ hc_result = HealthResult("UP", 4)
    /\ hc_sleeps = << 1, 2, 4 >>

----------------------------------------------------------------------------
C29_SummaryCountsAddUp ==
    summary # NoSummary =>
        /\ summary.successful + summary.failed + summary.partial = summary.total
        /\ summary.total = Len(rotation_results)
        /\ summary.total = Len(services_to_rotate)
        /\ \A i \in 1..Len(rotation_results) :
             rotation_results[i].status \in {"success", "partial", "failed"}
        /\ summary.failed = Cardinality({ i \in 1..Len(rotation_results) :
                                            rotation_results[i].status = "failed" })

\* A summary of one successful and one failed rotation, the failure being
\* an exception inside the task.
C29_Witness ==
    /\ summary = [total |-> 2, successful |-> 1, failed |-> 1, partial |-> 0]
    /\ \E i \in 1..Len(rotation_results) : rotation_results[i].error = ERR_EXCEPTION

----------------------------------------------------------------------------
Range(q) == { q[i] : i \in 1..Len(q) }

\* Spellings of the protected tags, in any case, that instances carry.
ProtectedSpellings == {"production", "Production", "Critical", "DATABASE"}

\* C30: an instance with a tag whose value is a protected tag, in whatever
\* case it is written, is never in the list detect_idle_instances builds,
\* so it is never handed to terminate_instances, never sent to EC2 for
\* termination and never reported terminated, whatever its CPU and uptime.
C30_ProtectedNeverTerminated ==
    \A k \in DOMAIN ec2_instances :
        (\E i \in 1..Len(ec2_instances[k].tags) :
             ec2_instances[k].tags[i] \in ProtectedSpellings) =>
            /\ k \notin Range(idle_instances)
            /\ k \notin Range(terminate_calls)
            /\ k \notin Range(termination.terminated) \cup Range(termination.failed)

\* A live run over an old instance tagged "Production" and an old untagged
\* instance without CPU load: only the second is terminated.
C30_Witness ==
    /\ ec2_pc = "done"
    /\ ~ec2_dry_run
    /\ Len(ec2_instances) = 2
    /\ ec2_instances[1] = InstanceDict(TRUE, << "Production" >>, IDLE_HOURS)
    /\ ec2_instances[2] = InstanceDict(TRUE, << >>, 100)
    /\ cpu_reads[1] = Unread
    /\ terminate_calls = << 2 >>
    /\ termination.terminated = << 2 >>

----------------------------------------------------------------------------
\* C31: an instance is in the list of idle instances (and so terminated)
\* only when CloudWatch answered with datapoints for it and their average
\* is below the CPU threshold; an instance whose metrics request failed or
\* came back without datapoints is not in the list.  get_cpu_utilization
\* answers 0.0 in both of these cases, which is below the threshold.
C31_IdleOnlyOnMeasuredCpu ==
    \A k \in Range(idle_instances) :
        /\ cpu_reads[k].kind = "datapoints"
        /\ cpu_reads[k].avg < CPU_THRESHOLD

====
